---------------------------- MODULE Spec2Model ----------------------------
(* Server Time API (src/main.py): the /time/convert handler with its time   *)
(* parser, place resolver and converter, the other endpoints, and the       *)
(* fire-and-forget log emission to Loki, on one cooperative event loop.     *)
(*                                                                          *)
(* Strings are sequences of one-character strings, so that strip, strptime  *)
(* and fromisoformat work on the characters as the Python code does.        *)
EXTENDS Integers, Sequences, FiniteSets, TLC

VARIABLES pc, input, resp, geo, logs, pin, pout

vars == <<pc, input, resp, geo, logs, pin, pout>>

-----------------------------------------------------------------------------
(* Characters and strings                                                   *)

DigitChars == <<"0", "1", "2", "3", "4", "5", "6", "7", "8", "9">>

IsDigit(c) == \E i \in 1..10 : DigitChars[i] = c

DigitVal(c) == (CHOOSE i \in 1..10 : DigitChars[i] = c) - 1

\* str.isspace for the characters of the model's alphabet
IsSpace(c) == c \in {" ", "\t"}

RECURSIVE lstrip(_)
lstrip(s) == IF s # <<>> /\ IsSpace(Head(s)) THEN lstrip(Tail(s)) ELSE s

RECURSIVE rstrip(_)
rstrip(s) ==
    IF s # <<>> /\ IsSpace(s[Len(s)]) THEN rstrip(SubSeq(s, 1, Len(s) - 1)) ELSE s

\* str.strip()
strip(s) == rstrip(lstrip(s))

\* value.replace("Z", "+00:00"): every Z, wherever it stands
RECURSIVE ReplaceZ(_)
ReplaceZ(s) ==
    IF s = <<>> THEN <<>>
    ELSE IF Head(s) = "Z" THEN <<"+", "0", "0", ":", "0", "0">> \o ReplaceZ(Tail(s))
    ELSE <<Head(s)>> \o ReplaceZ(Tail(s))

\* is there a digit at position i of s
Dg(s, i) == i >= 1 /\ i <= Len(s) /\ IsDigit(s[i])

\* the value of the digit at position i (0 when there is none)
Dv(s, i) == IF Dg(s, i) THEN DigitVal(s[i]) ELSE 0

\* the n digits from position i on: all there, and their value
AllDg(s, i, n) == \A k \in 0..(n - 1) : Dg(s, i + k)

RECURSIVE NumAt(_, _, _)
NumAt(s, i, n) == IF n = 0 THEN 0 ELSE NumAt(s, i, n - 1) * 10 + Dv(s, i + n - 1)

-----------------------------------------------------------------------------
(* Calendar                                                                 *)

IsLeap(y) == (y % 4 = 0 /\ y % 100 # 0) \/ y % 400 = 0

DaysInMonth(y, m) ==
    IF m = 2 THEN (IF IsLeap(y) THEN 29 ELSE 28)
    ELSE IF m \in {4, 6, 9, 11} THEN 30 ELSE 31

\* what datetime(...) accepts: MINYEAR..MAXYEAR and a day of that month
ValidDate(y, m, d) ==
    /\ y >= 1 /\ y <= 9999
    /\ m >= 1 /\ m <= 12
    /\ d >= 1 /\ d <= DaysInMonth(y, m)

ValidTime(h, mi, s) == h \in 0..23 /\ mi \in 0..59 /\ s \in 0..59

\* a datetime: its fields, whether it carries a tzinfo, and the offset in seconds
MkDt(y, m, d, h, mi, s, us, aware, off) ==
    [Y |-> y, M |-> m, D |-> d, h |-> h, m |-> mi, s |-> s, us |-> us,
     aware |-> aware, off |-> off]

NoDt == MkDt(0, 0, 0, 0, 0, 0, 0, FALSE, 0)

\* a ValueError of the parser, or a parsed datetime
ValueError == [ok |-> FALSE, dt |-> NoDt]

Parsed(dt) == [ok |-> TRUE, dt |-> dt]

-----------------------------------------------------------------------------
(* datetime.strptime: the format is a sequence of directives and literal    *)
(* characters; each directive is the regular expression _strptime compiles  *)
(* it to, its alternatives tried in order.                                  *)

\* the formats of UTC_TIME_FORMATS, in their order
UTC_TIME_FORMATS ==
    << <<"%Y", "-", "%m", "-", "%d", " ", "%H", ":", "%M", ":", "%S">>,
       <<"%Y", "-", "%m", "-", "%d", "T", "%H", ":", "%M", ":", "%S">>,
       <<"%Y", "-", "%m", "-", "%d", " ", "%H", ":", "%M">>,
       <<"%Y", "-", "%m", "-", "%d">> >>

\* the formats of UTC_TIME_ONLY_FORMATS, in their order
UTC_TIME_ONLY_FORMATS ==
    << <<"%H", ":", "%M", ":", "%S">>,
       <<"%H", ":", "%M">> >>

IsDirective(tok) == tok \in {"%Y", "%m", "%d", "%H", "%M", "%S"}

\* the alternatives of a directive's expression, in their order: how many
\* characters it takes (0: no match), given whether a digit stands first (one),
\* whether two digits stand there (two), and their values a and b
DirAlt(tok, one, two, a, b, four, blankDay) ==
    CASE tok = "%Y" -> IF four THEN 4 ELSE 0
      [] tok = "%m" -> IF two /\ a = 1 /\ b <= 2 THEN 2
                       ELSE IF two /\ a = 0 /\ b >= 1 THEN 2
                       ELSE IF one /\ a >= 1 THEN 1 ELSE 0
      [] tok = "%d" -> IF two /\ a = 3 /\ b <= 1 THEN 2
                       ELSE IF two /\ a \in {1, 2} THEN 2
                       ELSE IF two /\ a = 0 /\ b >= 1 THEN 2
                       ELSE IF one /\ a >= 1 THEN 1
                       ELSE IF blankDay THEN 2 ELSE 0
      [] tok = "%H" -> IF two /\ a = 2 /\ b <= 3 THEN 2
                       ELSE IF two /\ a <= 1 THEN 2
                       ELSE IF one THEN 1 ELSE 0
      [] tok = "%M" -> IF two /\ a <= 5 THEN 2
                       ELSE IF one THEN 1 ELSE 0
      [] tok = "%S" -> IF two /\ a = 6 /\ b <= 1 THEN 2
                       ELSE IF two /\ a <= 5 THEN 2
                       ELSE IF one THEN 1 ELSE 0

\* how many characters the directive takes at position i of s (0: no match)
DirLen(tok, s, i) ==
    DirAlt(tok, Dg(s, i), Dg(s, i) /\ Dg(s, i + 1), Dv(s, i), Dv(s, i + 1),
           AllDg(s, i, 4),
           i < Len(s) /\ s[i] = " " /\ Dg(s, i + 1) /\ Dv(s, i + 1) >= 1)

\* the number the directive read (a leading blank of %d counts as nothing)
DirVal(s, i, n) == NumAt(s, i, n)

\* the whitespace run at position i: a blank of the format is \s+
RECURSIVE SpaceRun(_, _)
SpaceRun(s, i) == IF i <= Len(s) /\ IsSpace(s[i]) THEN 1 + SpaceRun(s, i + 1) ELSE 0

\* a literal of the format against a character: the expression ignores case
LitMatch(tok, c) == tok = c \/ (tok = "T" /\ c = "t")

\* the fields strptime starts from: 1900-01-01 00:00:00
StrpDefaults == [Y |-> 1900, M |-> 1, D |-> 1, h |-> 0, m |-> 0, s |-> 0]

SetField(acc, tok, v) ==
    CASE tok = "%Y" -> [acc EXCEPT !.Y = v]
      [] tok = "%m" -> [acc EXCEPT !.M = v]
      [] tok = "%d" -> [acc EXCEPT !.D = v]
      [] tok = "%H" -> [acc EXCEPT !.h = v]
      [] tok = "%M" -> [acc EXCEPT !.m = v]
      [] tok = "%S" -> [acc EXCEPT !.s = v]

\* how many characters of s the token takes at position i (0: no match):
\* a directive, a blank of the format, or a literal character
TokLen(tok, s, i) ==
    IF IsDirective(tok) THEN DirLen(tok, s, i)
    ELSE IF tok = " " THEN SpaceRun(s, i)
    ELSE IF i <= Len(s) /\ LitMatch(tok, s[i]) THEN 1 ELSE 0

\* the fields after the token has read n characters at position i
TokAcc(acc, tok, s, i, n) ==
    IF IsDirective(tok) THEN SetField(acc, tok, DirVal(s, i, n)) ELSE acc

\* match fmt from its k-th token against s from position i; the whole of s
\* must be used up ("unconverted data remains" otherwise)
RECURSIVE StrpMatch(_, _, _, _, _)
RECURSIVE StrpStep(_, _, _, _, _, _)
StrpStep(fmt, k, s, i, acc, n) ==
    IF n = 0 THEN [ok |-> FALSE, f |-> acc]
    ELSE StrpMatch(fmt, k + 1, s, i + n, TokAcc(acc, fmt[k], s, i, n))

StrpMatch(fmt, k, s, i, acc) ==
    IF k > Len(fmt) THEN [ok |-> i = Len(s) + 1, f |-> acc]
    ELSE StrpStep(fmt, k, s, i, acc, TokLen(fmt[k], s, i))

\* the datetime of the fields a match read, or the ValueError of a match
\* that failed or of fields datetime(...) rejects
StrpResult(ok, f) ==
    IF ok /\ ValidDate(f.Y, f.M, f.D) /\ ValidTime(f.h, f.m, f.s)
    THEN Parsed(MkDt(f.Y, f.M, f.D, f.h, f.m, f.s, 0, FALSE, 0))
    ELSE ValueError

StrpResultOf(r) == StrpResult(r.ok, r.f)

\* datetime.strptime(value, fmt): a naive datetime, or ValueError
strptime(value, fmt) == StrpResultOf(StrpMatch(fmt, 1, value, 1, StrpDefaults))

-----------------------------------------------------------------------------
(* datetime.fromisoformat: YYYY-MM-DD, then optionally any one separator     *)
(* and HH[:MM[:SS[.fff[fff]]]] and an offset +HH:MM or -HH:MM.              *)

\* the first position from i on holding + or -, or 0
RECURSIVE SignPos(_, _)
SignPos(s, i) ==
    IF i > Len(s) THEN 0
    ELSE IF s[i] \in {"+", "-"} THEN i ELSE SignPos(s, i + 1)

\* HH[:MM[:SS[.fff[fff]]]]
IsoTimeShape(t, n) ==
    /\ n \in {2, 5, 8, 12, 15}
    /\ AllDg(t, 1, 2)
    /\ n >= 5 => (t[3] = ":" /\ AllDg(t, 4, 2))
    /\ n >= 8 => (t[6] = ":" /\ AllDg(t, 7, 2))
    /\ n >= 12 => (t[9] = "." /\ AllDg(t, 10, n - 9))

IsoTimeOf(shape, hh, mm, ss, us) ==
    IF shape /\ ValidTime(hh, mm, ss)
    THEN [ok |-> TRUE, h |-> hh, m |-> mm, s |-> ss, us |-> us]
    ELSE [ok |-> FALSE, h |-> 0, m |-> 0, s |-> 0, us |-> 0]

IsoTimeN(t, n) ==
    IsoTimeOf(IsoTimeShape(t, n),
              NumAt(t, 1, 2),
              IF n >= 5 THEN NumAt(t, 4, 2) ELSE 0,
              IF n >= 8 THEN NumAt(t, 7, 2) ELSE 0,
              IF n = 12 THEN NumAt(t, 10, 3) * 1000
              ELSE IF n = 15 THEN NumAt(t, 10, 6) ELSE 0)

IsoTime(t) == IsoTimeN(t, Len(t))

\* +HH:MM or -HH:MM, in seconds: a timezone offset is strictly within a day
IsoOffsetOf(shape, negative, secs) ==
    IF shape /\ secs < 86400
    THEN [ok |-> TRUE, off |-> IF negative THEN 0 - secs ELSE secs]
    ELSE [ok |-> FALSE, off |-> 0]

IsoOffset(z) ==
    IsoOffsetOf(Len(z) = 6 /\ z[1] \in {"+", "-"} /\ AllDg(z, 2, 2)
                /\ z[4] = ":" /\ AllDg(z, 5, 2),
                z # <<>> /\ z[1] = "-",
                NumAt(z, 2, 2) * 3600 + NumAt(z, 5, 2) * 60)

IsoDateShape(v) ==
    /\ Len(v) >= 10
    /\ AllDg(v, 1, 4) /\ v[5] = "-" /\ AllDg(v, 6, 2) /\ v[8] = "-" /\ AllDg(v, 9, 2)

\* the datetime of the parts: the date, the time (when n > 10 characters were
\* given), and the offset (when the time is followed by a sign, at sp)
IsoResult(n, dateOk, y, mo, d, sp, t, z) ==
    IF ~dateOk THEN ValueError
    ELSE IF n = 10 THEN Parsed(MkDt(y, mo, d, 0, 0, 0, 0, FALSE, 0))
    ELSE IF n = 11 \/ ~t.ok THEN ValueError
    ELSE IF sp = 0 THEN Parsed(MkDt(y, mo, d, t.h, t.m, t.s, t.us, FALSE, 0))
    ELSE IF ~z.ok THEN ValueError
    ELSE Parsed(MkDt(y, mo, d, t.h, t.m, t.s, t.us, TRUE, z.off))

\* the time and offset parts of what follows the date and its separator
IsoRest(n, dateOk, y, mo, d, rest, sp) ==
    IsoResult(n, dateOk, y, mo, d, sp,
              IsoTime(IF sp = 0 THEN rest ELSE SubSeq(rest, 1, sp - 1)),
              IsoOffset(IF sp = 0 THEN <<>> ELSE SubSeq(rest, sp, Len(rest))))

IsoParts(v, n, y, mo, d, rest) ==
    IsoRest(n, IsoDateShape(v) /\ ValidDate(y, mo, d), y, mo, d, rest, SignPos(rest, 1))

fromisoformat(v) ==
    IsoParts(v, Len(v), NumAt(v, 1, 4), NumAt(v, 6, 2), NumAt(v, 9, 2),
             IF Len(v) >= 12 THEN SubSeq(v, 12, Len(v)) ELSE <<>>)

-----------------------------------------------------------------------------
(* _parse_utc_time and the instant convert_time works on                    *)

\* a replace that leaves the datetime naive
ReplaceTzinfoForgotten(dt) == dt

\* dt.replace(tzinfo=timezone.utc): the same wall clock, now at offset zero
ReplaceTzinfoUtc(dt) == [dt EXCEPT !.aware = TRUE, !.off = 0]

\* an anchoring that keeps the microseconds of the clock
AnchorTodayKeepMicro(dt, today) ==
    [today EXCEPT !.h = dt.h, !.m = dt.m, !.s = dt.s]

\* today.replace(hour=dt.hour, minute=dt.minute, second=dt.second, microsecond=0)
AnchorToday(dt, today) ==
    [today EXCEPT !.h = dt.h, !.m = dt.m, !.s = dt.s, !.us = 0]

\* the first format of the tuple, from the k-th on, that strptime accepts (0: none)
RECURSIVE FirstFormat(_, _, _)
FirstFormat(value, fmts, k) ==
    IF k > Len(fmts) THEN 0
    ELSE IF strptime(value, fmts[k]).ok THEN k
    ELSE FirstFormat(value, fmts, k + 1)

\* the result of a parse: the datetime and the branch that produced it
\* (fixed1..fixed4, time1, time2, iso), or the HTTPException 422
ParseOk(dt, via) == [ok |-> TRUE, dt |-> dt, via |-> via]

ParseFailed == [ok |-> FALSE, dt |-> NoDt, via |-> "none"]

FixedName == <<"fixed1", "fixed2", "fixed3", "fixed4">>

TimeOnlyName == <<"time1", "time2">>

\* the loops and the fallback of _parse_utc_time on the stripped value: kf
\* and kt are the first fixed and the first time-only format that parse it,
\* iso is what fromisoformat makes of it
ParseChain(value, today, kf, kt, iso) ==
    IF kf # 0
    THEN ParseOk(ReplaceTzinfoUtc(strptime(value, UTC_TIME_FORMATS[kf]).dt),
                 FixedName[kf])
    ELSE IF kt # 0
    THEN ParseOk(AnchorToday(strptime(value, UTC_TIME_ONLY_FORMATS[kt]).dt, today),
                 TimeOnlyName[kt])
    ELSE IF iso.ok
    THEN ParseOk(IF iso.dt.aware THEN iso.dt ELSE ReplaceTzinfoUtc(iso.dt), "iso")
    ELSE ParseFailed

ParseStripped(value, today) ==
    ParseChain(value, today,
               FirstFormat(value, UTC_TIME_FORMATS, 1),
               FirstFormat(value, UTC_TIME_ONLY_FORMATS, 1),
               fromisoformat(ReplaceZ(value)))

\* _parse_utc_time(value), with `today` the clock's datetime.now(timezone.utc)
parse_utc_time(text, today) == ParseStripped(strip(text), today)

\* the optional query parameter utc_time: None, or a string
None == [some |-> FALSE, text |-> <<>>]

Some(text) == [some |-> TRUE, text |-> text]

\* convert_time, lines 186-189: no utc_time or a blank one is the clock's now
DtUtcOf(utc_time, now) ==
    IF ~utc_time.some \/ strip(utc_time.text) = <<>>
    THEN ParseOk(now, "now")
    ELSE parse_utc_time(utc_time.text, now)

-----------------------------------------------------------------------------
(* The inputs of the parser: strings written out from fields, so that what  *)
(* the parser reads back can be compared with what was written.             *)

D2(n) == <<DigitChars[(n \div 10) + 1], DigitChars[(n % 10) + 1]>>

D4(n) == D2(n \div 100) \o D2(n % 100)

\* a number as it is written without padding
Dn(n) == IF n < 10 THEN <<DigitChars[n + 1]>> ELSE D2(n)

DateText(f) == D4(f.Y) \o <<"-">> \o D2(f.M) \o <<"-">> \o D2(f.D)

ShortDateText(f) == D4(f.Y) \o <<"-">> \o Dn(f.M) \o <<"-">> \o Dn(f.D)

HmText(f) == D2(f.h) \o <<":">> \o D2(f.m)

HmsText(f) == HmText(f) \o <<":">> \o D2(f.s)

\* an offset of whole minutes as +HH:MM or -HH:MM
OffsetText(secs) ==
    LET a == IF secs < 0 THEN 0 - secs ELSE secs
    IN  <<IF secs < 0 THEN "-" ELSE "+">> \o D2(a \div 3600) \o <<":">>
        \o D2((a % 3600) \div 60)

\* the largest run of blanks written around a string
MaxPad == 1

RECURSIVE Blanks(_)
Blanks(n) == IF n = 0 THEN <<>> ELSE <<" ">> \o Blanks(n - 1)

Padded(text, n) == Blanks(n) \o text \o Blanks(n)

FixedShapes == {"ymd_hms", "ymdThms", "ymd_hm", "ymd", "ymd_short"}

TimeOnlyShapes == {"hms", "hm"}

IsoShapes == {"isoZ", "isoOff", "isoFrac", "isoThm"}

JunkShapes == {"junkWord", "junkHour", "junkMinute"}

AbsentShapes == {"absent", "blank"}

Shapes == FixedShapes \cup TimeOnlyShapes \cup IsoShapes \cup JunkShapes \cup AbsentShapes

\* the text of a shape for the fields f
ShapeText(shape, f) ==
    CASE shape = "ymd_hms" -> DateText(f) \o <<" ">> \o HmsText(f)
      [] shape = "ymdThms" -> DateText(f) \o <<"T">> \o HmsText(f)
      [] shape = "ymd_hm" -> DateText(f) \o <<" ">> \o HmText(f)
      [] shape = "ymd" -> DateText(f)
      [] shape = "ymd_short" -> ShortDateText(f)
      [] shape = "hms" -> HmsText(f)
      [] shape = "hm" -> HmText(f)
      [] shape = "isoZ" -> DateText(f) \o <<"T">> \o HmsText(f) \o <<"Z">>
      [] shape = "isoOff" -> DateText(f) \o <<"T">> \o HmsText(f) \o OffsetText(f.off)
      [] shape = "isoFrac" -> DateText(f) \o <<"T">> \o HmsText(f) \o <<".", "2", "5", "0">>
      [] shape = "isoThm" -> DateText(f) \o <<"T">> \o HmText(f)
      [] shape = "junkWord" -> <<"x", "y">>
      [] shape = "junkHour" -> <<"2", "5", ":", "0", "0">>
      [] shape = "junkMinute" -> <<"1", "2", ":", "6", "0">>
      [] shape = "blank" -> <<" ">>
      [] shape = "absent" -> <<>>

\* the query parameter of a shape
ShapeParam(shape, f, pad) ==
    IF shape = "absent" THEN None ELSE Some(Padded(ShapeText(shape, f), pad))

Years == {1, 2024, 2025, 9999}

Months == {2, 12}

Days == {1, 29, 31}

Hours == {0, 15, 23}

Minutes == {0, 59}

Seconds == {0, 59}

\* the explicit offsets written in the isoOff shape, in seconds
Offsets == {18000, 0 - 12600}

FieldSets ==
    [Y : Years, M : Months, D : Days, h : Hours, m : Minutes, s : Seconds,
     off : Offsets]

\* the readings of the clock: datetime.now(timezone.utc)
Nows == {MkDt(2025, 2, 4, 12, 30, 45, 678901, TRUE, 0),
         MkDt(2024, 12, 31, 23, 59, 59, 0, TRUE, 0)}

NotParsed == [done |-> FALSE, ok |-> FALSE, dt |-> NoDt, via |-> "none"]

Outcome(r) == [done |-> TRUE, ok |-> r.ok, dt |-> r.dt, via |-> r.via]

\* the fields a shape does not write are held at one value
Written(shape, f) ==
    /\ shape # "isoOff" => f.off = 18000
    /\ shape \in TimeOnlyShapes \cup JunkShapes \cup AbsentShapes
          => (f.Y = 2025 /\ f.M = 2 /\ f.D = 1)
    /\ shape \in {"ymd", "ymd_short"} \cup JunkShapes \cup AbsentShapes
          => (f.h = 0 /\ f.m = 0 /\ f.s = 0)
    /\ shape \in {"ymd_hm", "hm", "isoThm"} => f.s = 0

\* the inputs of the parser: a shape, the fields written, the blanks around
\* the text, the parameter as the handler gets it, and the clock's reading
InputsOfShape(sh) ==
    {[shape |-> sh, f |-> f, pad |-> n, utc_time |-> ShapeParam(sh, f, n), now |-> now] :
        f \in {g \in FieldSets : Written(sh, g)}, n \in 0..MaxPad, now \in Nows}

ParseInputs == UNION {InputsOfShape(sh) : sh \in Shapes}

NoInput == [shape |-> "none", f |-> [Y |-> 0, M |-> 0, D |-> 0, h |-> 0, m |-> 0,
                                     s |-> 0, off |-> 0],
            pad |-> 0, utc_time |-> None, now |-> NoDt]

-----------------------------------------------------------------------------
(* Time Converter: dt_utc.astimezone(ZoneInfo(tz_name))                     *)

NextDay(dt) ==
    IF dt.D < DaysInMonth(dt.Y, dt.M) THEN [dt EXCEPT !.D = dt.D + 1]
    ELSE IF dt.M < 12 THEN [dt EXCEPT !.M = dt.M + 1, !.D = 1]
    ELSE [dt EXCEPT !.Y = dt.Y + 1, !.M = 1, !.D = 1]

PrevDay(dt) ==
    IF dt.D > 1 THEN [dt EXCEPT !.D = dt.D - 1]
    ELSE IF dt.M > 1 THEN [dt EXCEPT !.M = dt.M - 1, !.D = DaysInMonth(dt.Y, dt.M - 1)]
    ELSE [dt EXCEPT !.Y = dt.Y - 1, !.M = 12, !.D = 31]

\* the datetime on the day `day` at second t of the day; OverflowError outside
\* datetime.min .. datetime.max
AtSecond(day, t) ==
    IF day.Y < 1 \/ day.Y > 9999 THEN [ok |-> FALSE, dt |-> NoDt]
    ELSE [ok |-> TRUE,
          dt |-> [day EXCEPT !.h = t \div 3600, !.m = (t % 3600) \div 60, !.s = t % 60]]

Shifted(dt, sod) ==
    AtSecond(IF sod < 0 THEN PrevDay(dt) ELSE IF sod >= 86400 THEN NextDay(dt) ELSE dt,
             (sod + 86400) % 86400)

\* dt + timedelta(seconds=k) for |k| under a day
AddSeconds(dt, k) == Shifted(dt, dt.h * 3600 + dt.m * 60 + dt.s + k)

\* the zone's offset from UTC in seconds at a UTC instant: local mean time
\* before the zone's first rule, the standard offset after (the instants of
\* the model are winter dates)
UtcOffset(zone, utc) ==
    IF zone = "Asia/Yekaterinburg"
    THEN (IF utc.Y < 1916 THEN 14553 ELSE 18000)
    ELSE (IF utc.Y < 1883 THEN 0 - 17762 ELSE 0 - 18000)

\* the local datetime of a UTC one at the zone's offset
Localized(loc, off) ==
    IF ~loc.ok THEN [ok |-> FALSE, dt |-> NoDt]
    ELSE [ok |-> TRUE, dt |-> [loc.dt EXCEPT !.aware = TRUE, !.off = off]]

FromUtc(utc, off) == Localized(AddSeconds(utc, off), off)

ToZone(utc, zone) ==
    IF ~utc.ok THEN [ok |-> FALSE, dt |-> NoDt]
    ELSE FromUtc(utc.dt, UtcOffset(zone, utc.dt))

\* dt.astimezone(tz) of an aware dt: to UTC by its own offset, then to the
\* zone; ok = FALSE is the OverflowError of either step
astimezone(dt, zone) == ToZone(AddSeconds(dt, 0 - dt.off), zone)

-----------------------------------------------------------------------------
(* Place Resolver: _city_to_timezone                                        *)

\* what _geolocator.geocode can do: a location, None, or raise; geopy raises
\* GeocoderTimedOut and GeocoderUnavailable, and other GeocoderServiceError
\* kinds (rate limit, quota, query, parse errors) as well
GeoRaises == {"GeocoderTimedOut", "GeocoderUnavailable", "GeocoderServiceError"}

\* the places the geocoder can answer with, in whole degrees
Yekaterinburg == [lat |-> 57, lng |-> 61]

NewYork == [lat |-> 41, lng |-> 0 - 74]

MidAtlantic == [lat |-> 0, lng |-> 0 - 30]

Locations == {Yekaterinburg, NewYork, MidAtlantic}

NoLocation == [lat |-> 0, lng |-> 0]

\* an answer of the geocoder
GeoAnswers ==
    {[out |-> "found", loc |-> l] : l \in Locations}
    \cup {[out |-> o, loc |-> NoLocation] : o \in {"none"} \cup GeoRaises}

GeoPending == [out |-> "pending", loc |-> NoLocation]

\* _tzf.timezone_at(lat, lng): the zone name, or None ("") where the index
\* has no zone
timezone_at(loc) ==
    IF loc = Yekaterinburg THEN "Asia/Yekaterinburg"
    ELSE IF loc = NewYork THEN "America/New_York"
    ELSE ""

\* what a handler step ends with: a value, an HTTPException, or another exception
Value(tz) == [tag |-> "ok", status |-> 200, detail |-> "ok", city |-> <<>>, tz |-> tz]

HTTPException(status, detail, city) ==
    [tag |-> "http", status |-> status, detail |-> detail, city |-> city, tz |-> ""]

Raised(exc) == [tag |-> "exc", status |-> 500, detail |-> exc, city |-> <<>>, tz |-> ""]

\* an except clause that takes every geocoder error for "unavailable"
GeocodeCaughtAll(exc) == exc \in GeoRaises

\* except (GeocoderTimedOut, GeocoderUnavailable)
GeocodeCaught(exc) == exc \in {"GeocoderTimedOut", "GeocoderUnavailable"}

\* a check of the city that does not strip it first
IsBlankCityUnstripped(city) == city = <<>>

\* lines 80-82: city_name = city_name.strip(); if not city_name
IsBlankCity(city) == strip(city) = <<>>

\* a "not found" detail that quotes the city as it was given
NotFoundDetailCityRaw(city) == city

\* line 90: the detail quotes city_name, which line 80 has stripped
NotFoundDetailCity(city) == strip(city)

\* _city_to_timezone from the geocoder's answer on (lines 85-98)
city_to_timezone(city, ans) ==
    IF ans.out \in GeoRaises
    THEN (IF GeocodeCaught(ans.out)
          THEN HTTPException(503, "geocoder_unavailable", <<>>)
          ELSE Raised(ans.out))
    ELSE IF ans.out = "none"
    THEN HTTPException(422, "not_found", NotFoundDetailCity(city))
    ELSE IF timezone_at(ans.loc) = ""
    THEN HTTPException(422, "tz_unknown", strip(city))
    ELSE Value(timezone_at(ans.loc))

-----------------------------------------------------------------------------
(* Requests, responses and log records                                      *)

\* the requests of a run: request 1 draws its parameters and its geocoder
\* answer from the full sets below, the requests after it are the traffic
\* around it and draw from the smaller Traffic sets
NReq == 2

Req == 1..NReq

Endpoints == {"/", "/time", "/time/convert", "/health"}

\* a response: the status, what the body or detail says, and the values it quotes
Response(status, detail, city, tz, utc, local) ==
    [status |-> status, detail |-> detail, city |-> city, timezone |-> tz,
     utc_time |-> utc, converted_time |-> local]

NoResponse == Response(0, "none", <<>>, "", NoDt, NoDt)

NoRequest == [endpoint |-> "none", city |-> <<>>, utc_time |-> None, now |-> NoDt]

\* what the sink or the network does to one push
PushOutcomes == {"ok", "non_2xx", "network_error", "timeout"}

\* client.post raises on a network error or a timeout; a non-2xx answer is
\* a response like any other (there is no raise_for_status)
PostRaises(outcome) == outcome \in {"network_error", "timeout"}

\* a send_log_to_loki without its try/except: what the post raises leaves the task
TaskExceptionUncaught(outcome) == IF PostRaises(outcome) THEN "httpx.HTTPError" ELSE ""

\* lines 53-75: except Exception: pass; the task ends without an exception
TaskException(outcome) == ""

\* a launched send_log_to_loki call: its stream labels (lines 56-63: job,
\* level, endpoint, then the extra labels) and where the task stands
LogTask(level, endpoint, extra, city, tz, status_code) ==
    [job |-> "server-time-api", level |-> level, endpoint |-> endpoint,
     extra |-> extra, city |-> city, timezone |-> tz, status_code |-> status_code,
     state |-> "scheduled", outcome |-> "none", exc |-> ""]

\* the ok record of "/", "/time" and "/health"
PlainLog(endpoint) == LogTask("info", endpoint, {}, <<>>, "", 0)

\* lines 202-218: the record of a converted request
OkLog(city, tz) == LogTask("info", "/time/convert", {"city", "timezone"}, strip(city), tz, 0)

\* lines 221-239: the record of a request that raised an HTTPException
ErrorLog(city, e) ==
    LogTask("error", "/time/convert", {"city", "status_code"}, strip(city), "", e.status)

\* lines 220-240: except HTTPException as e: one record, then raise
LogsOfError(city, e) == <<ErrorLog(city, e)>>

\* what convert_time leaves once a step of it ended with result res, dt_utc
\* being p.dt and `local` the outcome of dt_utc.astimezone(tz): an
\* HTTPException is logged and re-raised (lines 220-240), any other exception
\* passes through the handler without a record, a converted time is answered
\* and logged (lines 195-219)
ConvertEndWith(in, res, p, local) ==
    IF res.tag = "http"
    THEN [resp |-> Response(res.status, res.detail, res.city, "", NoDt, NoDt),
          logs |-> LogsOfError(in.city, res)]
    ELSE IF res.tag = "exc"
    THEN [resp |-> Response(500, res.detail, <<>>, "", NoDt, NoDt), logs |-> <<>>]
    ELSE IF ~local.ok
    THEN [resp |-> Response(500, "OverflowError", <<>>, "", NoDt, NoDt), logs |-> <<>>]
    ELSE [resp |-> Response(200, "ok", strip(in.city), res.tz, p.dt, local.dt),
          logs |-> <<OkLog(in.city, res.tz)>>]

ConvertEndAt(in, res, p) == ConvertEndWith(in, res, p, astimezone(p.dt, res.tz))

ConvertEnd(in, res) == ConvertEndAt(in, res, DtUtcOf(in.utc_time, in.now))

\* the cooperative event loop runs one coroutine at a time, and
\* _geolocator.geocode is a plain blocking call inside the coroutine
\* convert_time (line 84, no await): until it returns nothing else runs
LoopFree == \A r \in Req : pc[r] # "geocoding"

\* the handler of r may start: the loop is free (the traffic requests are
\* numbered in the order they start, request 1 starts at any time)
MayStart(r) ==
    /\ pc[r] = "idle"
    /\ LoopFree
    /\ \A q \in Req : (1 < q /\ q < r) => pc[q] # "idle"

\* a handler that awaits the records it launched before it answers
ResponseReadyAfterLogs(r) ==
    /\ pc[r] = "returned"
    /\ \A i \in 1..Len(logs[r]) : logs[r][i].state = "finished"

\* asyncio.create_task(...) is not awaited (lines 105, 131, 202, 221, 247):
\* the handler has returned or raised, and the answer can go out
ResponseReady(r) == pc[r] = "returned"

-----------------------------------------------------------------------------
(* The server: the steps of the handlers and of the log tasks               *)

\* the city and utc_time parameters and the clock readings of the requests
Cities == {<<>>, <<" ">>, <<"E", "k", "b">>, <<" ", "E", "k", "b", " ">>}

Times == {None, Some(<<"x", "y">>), Some(<<"0", "0", "0", "1", "-", "0", "1", "-", "0", "1">>)}

Clock == {MkDt(2025, 2, 4, 12, 30, 45, 678901, TRUE, 0)}

\* what the traffic requests draw from
TrafficEndpoints == {"/health"}

TrafficCities == {<<"E", "k", "b">>}

TrafficTimes == {None}

TrafficAnswers ==
    {[out |-> "found", loc |-> Yekaterinburg], [out |-> "GeocoderTimedOut", loc |-> NoLocation]}

EndpointsOf(r) == IF r = 1 THEN Endpoints \ {"/time/convert"} ELSE TrafficEndpoints

CitiesOf(r) == IF r = 1 THEN Cities ELSE TrafficCities

TimesOf(r) == IF r = 1 THEN Times ELSE TrafficTimes

AnswersOf(r) == IF r = 1 THEN GeoAnswers ELSE TrafficAnswers

\* the handler returned or raised: its response and the records it launched
Returned(r, in, end) ==
    /\ pc' = [pc EXCEPT ![r] = "returned"]
    /\ input' = [input EXCEPT ![r] = in]
    /\ resp' = [resp EXCEPT ![r] = end.resp]
    /\ logs' = [logs EXCEPT ![r] = end.logs]

\* root, get_server_time, health (lines 101-145, 243-261)
ServeIn(r, endpoints) ==
    /\ MayStart(r)
    /\ \E e \in endpoints, now \in Clock :
          LET in == [endpoint |-> e, city |-> <<>>, utc_time |-> None, now |-> now]
              body == IF e = "/time"
                      THEN Response(200, e, <<>>, "UTC", now, NoDt)
                      ELSE Response(200, e, <<>>, "", NoDt, NoDt)
          IN  Returned(r, in, [resp |-> body, logs |-> <<PlainLog(e)>>])
    /\ UNCHANGED <<geo, pin, pout>>

\* convert_time up to the geocoder call (lines 185-191, 78-84): the time is
\* parsed (p), the city stripped and checked, and then the geocoder is called
ConvertBegin(r, in, p) ==
    IF ~p.ok
    THEN /\ Returned(r, in, ConvertEndAt(in, HTTPException(422, "bad_time", <<>>), p))
         /\ UNCHANGED geo
    ELSE IF IsBlankCity(in.city)
    THEN /\ Returned(r, in, ConvertEndAt(in, HTTPException(422, "blank_city", <<>>), p))
         /\ UNCHANGED geo
    ELSE /\ pc' = [pc EXCEPT ![r] = "geocoding"]
         /\ input' = [input EXCEPT ![r] = in]
         /\ geo' = [geo EXCEPT ![r] = Append(@, GeoPending)]
         /\ UNCHANGED <<resp, logs>>

ConvertStartIn(r, cities, times) ==
    /\ MayStart(r)
    /\ \E city \in cities, utc \in times, now \in Clock :
          ConvertBegin(r, [endpoint |-> "/time/convert", city |-> city,
                           utc_time |-> utc, now |-> now],
                       DtUtcOf(utc, now))
    /\ UNCHANGED <<pin, pout>>

ConvertStart(r) == ConvertStartIn(r, CitiesOf(r), TimesOf(r))

Serve(r) == ServeIn(r, EndpointsOf(r))

\* the geocoder answers, and convert_time runs to its end (lines 85-98, 192-240)
GeocodeReturnIn(r, answers) ==
    /\ pc[r] = "geocoding"
    /\ \E ans \in answers :
          /\ geo' = [geo EXCEPT ![r][Len(geo[r])] = ans]
          /\ Returned(r, input[r], ConvertEnd(input[r], city_to_timezone(input[r].city, ans)))
    /\ UNCHANGED <<pin, pout>>

GeocodeReturn(r) == GeocodeReturnIn(r, AnswersOf(r))

\* the response of r goes out
Respond(r) ==
    /\ LoopFree
    /\ ResponseReady(r)
    /\ pc' = [pc EXCEPT ![r] = "done"]
    /\ UNCHANGED <<input, resp, geo, logs, pin, pout>>

\* send_log_to_loki runs up to its await of client.post (lines 53-73)
LogStart(r) ==
    /\ LoopFree
    /\ \E i \in 1..Len(logs[r]) :
          /\ logs[r][i].state = "scheduled"
          /\ logs' = [logs EXCEPT ![r][i].state = "pushing"]
    /\ UNCHANGED <<pc, input, resp, geo, pin, pout>>

\* the post ends one way or another and the task ends (lines 73-75)
LogDone(r) ==
    /\ LoopFree
    /\ \E i \in 1..Len(logs[r]), o \in PushOutcomes :
          /\ logs[r][i].state = "pushing"
          /\ logs' = [logs EXCEPT ![r][i].state = "finished",
                                  ![r][i].outcome = o,
                                  ![r][i].exc = TaskException(o)]
    /\ UNCHANGED <<pc, input, resp, geo, pin, pout>>

Init ==
    /\ pc = [r \in Req |-> "idle"]
    /\ input = [r \in Req |-> NoRequest]
    /\ resp = [r \in Req |-> NoResponse]
    /\ geo = [r \in Req |-> <<>>]
    /\ logs = [r \in Req |-> <<>>]
    /\ pin = NoInput
    /\ pout = NotParsed

Next ==
    \E r \in Req :
        \/ Serve(r)
        \/ ConvertStart(r)
        \/ GeocodeReturn(r)
        \/ Respond(r)
        \/ LogStart(r)
        \/ LogDone(r)

Spec == Init /\ [][Next]_vars

-----------------------------------------------------------------------------
(* The parser on its own: every input of ParseInputs goes through lines      *)
(* 186-189 of convert_time once.                                            *)

ParseInit ==
    /\ pc = [r \in Req |-> "idle"]
    /\ input = [r \in Req |-> NoRequest]
    /\ resp = [r \in Req |-> NoResponse]
    /\ geo = [r \in Req |-> <<>>]
    /\ logs = [r \in Req |-> <<>>]
    /\ pin \in ParseInputs
    /\ pout = NotParsed

\* line 187: utc_time is None or blank, dt_utc is the clock's now
UseNow ==
    /\ ~pout.done
    /\ ~pin.utc_time.some \/ strip(pin.utc_time.text) = <<>>
    /\ pout' = Outcome(DtUtcOf(pin.utc_time, pin.now))
    /\ UNCHANGED <<pc, input, resp, geo, logs, pin>>

\* line 189: dt_utc = _parse_utc_time(utc_time)
ParseTime ==
    /\ ~pout.done
    /\ pin.utc_time.some /\ strip(pin.utc_time.text) # <<>>
    /\ pout' = Outcome(DtUtcOf(pin.utc_time, pin.now))
    /\ UNCHANGED <<pc, input, resp, geo, logs, pin>>

ParseNext == UseNow \/ ParseTime

ParseSpec == ParseInit /\ [][ParseNext]_vars

-----------------------------------------------------------------------------
(* Properties of the parser (under ParseSpec)                               *)

\* the datetime written into the text of a date-and-time shape, at UTC
WrittenUtc(f, sec, us) == MkDt(f.Y, f.M, f.D, f.h, f.m, sec, us, TRUE, 0)

\* the clock's date at the written time of day, microseconds zero
TodayAt(now, f, sec) == MkDt(now.Y, now.M, now.D, f.h, f.m, sec, 0, TRUE, 0)

\* what the written text of a shape must parse to, and by which branch
ExpectedOf(shape, f, now) ==
    CASE shape = "ymd_hms" -> ParseOk(WrittenUtc(f, f.s, 0), "fixed1")
      [] shape = "ymdThms" -> ParseOk(WrittenUtc(f, f.s, 0), "fixed2")
      [] shape = "ymd_hm" -> ParseOk(WrittenUtc(f, 0, 0), "fixed3")
      [] shape \in {"ymd", "ymd_short"} ->
            ParseOk(MkDt(f.Y, f.M, f.D, 0, 0, 0, 0, TRUE, 0), "fixed4")
      [] shape = "hms" -> ParseOk(TodayAt(now, f, f.s), "time1")
      [] shape = "hm" -> ParseOk(TodayAt(now, f, 0), "time2")
      [] shape = "isoZ" -> ParseOk(WrittenUtc(f, f.s, 0), "iso")
      [] shape = "isoFrac" -> ParseOk(WrittenUtc(f, f.s, 250000), "iso")
      [] shape = "isoThm" -> ParseOk(WrittenUtc(f, 0, 0), "iso")
      [] shape = "isoOff" ->
            ParseOk([WrittenUtc(f, f.s, 0) EXCEPT !.off = f.off], "iso")
      [] OTHER -> ParseFailed

\* the shapes that write a date: a date the calendar does not have is rejected
WritesDate(shape) == shape \in FixedShapes \cup IsoShapes

Expected(in) ==
    IF WritesDate(in.shape) /\ ~ValidDate(in.f.Y, in.f.M, in.f.D) THEN ParseFailed
    ELSE ExpectedOf(in.shape, in.f, in.now)

\* C8: _parse_utc_time tries the four fixed formats in their order, then the
\* two time-only formats, then the ISO-8601 fallback, and stops at the first
\* that accepts: a text written as date and time parses to that wall clock at
\* UTC by its own format, a date to midnight UTC, a time of day to the clock's
\* UTC date at that time with microseconds zero, and a text no branch accepts
\* is rejected.
C8_ParseOrderAndValues ==
    (pout.done /\ pin.shape \notin AbsentShapes)
        => /\ pout.ok = Expected(pin).ok
           /\ pout.dt = Expected(pin).dt
           /\ pout.via = Expected(pin).via

\* a time of day was anchored to the clock's date while the clock showed
\* microseconds, a padded date parsed, and a junk text was rejected
C8_Witness ==
    /\ pout.done /\ pout.ok /\ pout.via = "time2"
    /\ pin.now.us # 0 /\ pout.dt.us = 0
    /\ pout.dt.h = 15 /\ pout.dt.m = 0 /\ pout.dt.s = 0
    /\ pout.dt.Y = pin.now.Y /\ pout.dt.D = pin.now.D
    /\ pin.pad > 0

\* C7 as claimed: every accepted utc_time, the ISO-8601 fallback with an
\* explicit offset included, gives an instant at UTC offset zero.
C7_AlwaysUtc ==
    (pout.done /\ pout.ok) => (pout.dt.aware /\ pout.dt.off = 0)

\* C7 as amended: every accepted utc_time gives an offset-qualified instant;
\* its offset is zero except for an ISO-8601 fallback input that writes an
\* explicit offset, which keeps the offset it wrote.
C7_UtcUnlessExplicitOffset ==
    (pout.done /\ pout.ok)
        => /\ pout.dt.aware
           /\ pin.shape # "isoOff" => pout.dt.off = 0
           /\ pin.shape = "isoOff" => pout.dt.off = pin.f.off

\* an ISO-8601 text with +05:00 was accepted and kept its offset
C7_Witness ==
    /\ pout.done /\ pout.ok /\ pout.via = "iso"
    /\ pin.shape = "isoOff" /\ pin.f.off = 18000
    /\ pout.dt.aware /\ pout.dt.off = 18000 /\ pout.dt.h = pin.f.h

-----------------------------------------------------------------------------
(* The server with every request drawn from the Traffic sets, and the       *)
(* fairness the event loop gives: a geocoder call that can return and a     *)
(* response that can go out are not postponed for ever. Nothing is assumed  *)
(* of the log tasks: a push may never start and may never complete.         *)

ServeTraffic(r) == ServeIn(r, TrafficEndpoints)

ConvertStartTraffic(r) == ConvertStartIn(r, TrafficCities, TrafficTimes)

GeocodeReturnTraffic(r) == GeocodeReturnIn(r, TrafficAnswers)

LiveNext ==
    \E r \in Req :
        \/ ServeTraffic(r)
        \/ ConvertStartTraffic(r)
        \/ GeocodeReturnTraffic(r)
        \/ Respond(r)
        \/ LogStart(r)
        \/ LogDone(r)

LiveSpec ==
    /\ Init
    /\ [][LiveNext]_vars
    /\ \A r \in Req : WF_vars(GeocodeReturnTraffic(r))
    /\ \A r \in Req : WF_vars(Respond(r))

-----------------------------------------------------------------------------
(* Properties of the server (under Spec, C5 under LiveSpec)                 *)

\* the handler of r has returned or raised
Ended(r) == pc[r] \in {"returned", "done"}

IsConvert(r) == input[r].endpoint = "/time/convert"

\* the geocoder's answer to the call of r ("not_called" when there was none)
Answer(r) == IF geo[r] = <<>> THEN "not_called" ELSE geo[r][Len(geo[r])].out

AnswerLoc(r) == IF geo[r] = <<>> THEN NoLocation ELSE geo[r][Len(geo[r])].loc

\* a string of nothing but whitespace
AllSpaces(t) == \A i \in 1..Len(t) : IsSpace(t[i])

\* t is s without the whitespace at its two ends
IsTrimOf(t, s) ==
    /\ t # <<>> => (~IsSpace(t[1]) /\ ~IsSpace(t[Len(t)]))
    /\ \E a \in 0..Len(s) :
          /\ a + Len(t) <= Len(s)
          /\ SubSeq(s, a + 1, a + Len(t)) = t
          /\ AllSpaces(SubSeq(s, 1, a))
          /\ AllSpaces(SubSeq(s, a + Len(t) + 1, Len(s)))

\* the utc_time parameters of the requests that the parser rejects
RejectedTimes == {t \in Times : \E now \in Clock : ~DtUtcOf(t, now).ok}

TimeRejected(r) == input[r].utc_time \in RejectedTimes

\* C1 as claimed: a /time/convert request that does not succeed ends with
\* status 422 or 503, whatever the parser, the geocoder, the timezone index
\* and the conversion do.
C1_FailuresAre422Or503 ==
    \A r \in Req :
        (Ended(r) /\ IsConvert(r) /\ resp[r].status # 200)
            => resp[r].status \in {422, 503}

\* C2: a geocoder call that times out or is unavailable ends the request with
\* 503 and not 422, and 503 is the status of no other request: an unparseable
\* time, a blank city, a place without a match and coordinates without a
\* zone all end with 422.
C2_503IffGeocoderDown ==
    \A r \in Req :
        (Ended(r) /\ IsConvert(r))
            => /\ resp[r].status = 503
                    <=> Answer(r) \in {"GeocoderTimedOut", "GeocoderUnavailable"}
               /\ TimeRejected(r) => resp[r].status = 422
               /\ AllSpaces(input[r].city) => resp[r].status = 422
               /\ Answer(r) = "none" => resp[r].status = 422
               /\ (Answer(r) = "found" /\ AnswerLoc(r) = MidAtlantic)
                      => resp[r].status = 422

\* a request ended with 503 after the geocoder timed out, another after
\* it was unavailable
C2_Witness ==
    \E r \in Req :
        /\ Ended(r) /\ IsConvert(r)
        /\ Answer(r) = "GeocoderUnavailable"
        /\ resp[r].status = 503

\* C3: a request with an empty or whitespace-only city ends with 422, and the
\* geocoder is never called for it, neither before nor after the rejection.
C3_BlankCityNeverGeocoded ==
    \A r \in Req :
        (IsConvert(r) /\ AllSpaces(input[r].city))
            => /\ geo[r] = <<>>
               /\ Ended(r)
               /\ resp[r].status = 422
               /\ ~TimeRejected(r) => resp[r].detail = "blank_city"

\* a whitespace-only city was rejected and its response has gone out
C3_Witness ==
    \E r \in Req :
        /\ pc[r] = "done" /\ IsConvert(r)
        /\ input[r].city = <<" ">>
        /\ resp[r].status = 422 /\ resp[r].detail = "blank_city"
        /\ geo[r] = <<>>

\* C4: no log task ends with an exception, and the response does not depend
\* on what became of the push: two requests with the same parameters and the
\* same geocoder answer have the same status and body, whatever their log
\* tasks did.
C4_LogOutcomeNeverChangesResponse ==
    /\ \A r \in Req : \A i \in 1..Len(logs[r]) : logs[r][i].exc = ""
    /\ \A r, q \in Req :
          (Ended(r) /\ Ended(q) /\ input[r] = input[q] /\ geo[r] = geo[q])
              => resp[r] = resp[q]

\* two converted requests with the same parameters and answer, one whose
\* push was delivered and one whose push met a network error
C4_Witness ==
    \E r, q \in Req :
        /\ pc[r] = "done" /\ pc[q] = "done"
        /\ IsConvert(r) /\ input[r] = input[q] /\ geo[r] = geo[q]
        /\ Len(logs[r]) = 1 /\ logs[r][1].outcome = "ok"
        /\ Len(logs[q]) = 1 /\ logs[q][1].outcome = "network_error"
        /\ logs[q][1].exc = ""
        /\ resp[r] = resp[q] /\ resp[r].status = 200

\* C5: a request whose handler has started gets its response out, with no
\* assumption that any log push ever completes.
C5_ResponseNeverWaitsOnLog ==
    \A r \in Req : (pc[r] # "idle") ~> (pc[r] = "done")

\* a response has gone out while the push of its own record is still in
\* flight and the record of an earlier request has not even started
C5_Witness ==
    \E r, q \in Req :
        /\ r # q
        /\ pc[r] = "done" /\ Len(logs[r]) = 1 /\ logs[r][1].state = "pushing"
        /\ Len(logs[q]) = 1 /\ logs[q][1].state = "scheduled"

\* C6 as claimed: a place without a match ends with 422 and a "not found"
\* detail that quotes the city exactly as it was given, blanks included.
C6_NotFoundQuotesInputVerbatim ==
    \A r \in Req :
        (Ended(r) /\ IsConvert(r) /\ Answer(r) = "none")
            => /\ resp[r].status = 422
               /\ resp[r].detail = "not_found"
               /\ resp[r].city = input[r].city

\* C6 as amended: a place without a match ends with 422 and a "not found"
\* detail that quotes the city with its leading and trailing whitespace
\* removed (exactly as given when there is none).
C6_NotFoundQuotesTrimmedInput ==
    \A r \in Req :
        (Ended(r) /\ IsConvert(r) /\ Answer(r) = "none")
            => /\ resp[r].status = 422
               /\ resp[r].detail = "not_found"
               /\ IsTrimOf(resp[r].city, input[r].city)

\* a city given with blanks around it was not found, and the detail quotes it
\* without them
C6_Witness ==
    \E r \in Req :
        /\ Ended(r) /\ IsConvert(r) /\ Answer(r) = "none"
        /\ input[r].city = <<" ", "E", "k", "b", " ">>
        /\ resp[r].detail = "not_found"
        /\ resp[r].city = <<"E", "k", "b">>

\* a step some log task of q can take
LogStep(q) == LogStart(q) \/ LogDone(q)

HasOpenLog(q) == \E i \in 1..Len(logs[q]) : logs[q][i].state # "finished"

\* C9 as claimed: while a request waits for the geocoder, the other requests
\* and the log tasks already launched can take their steps.
C9_OthersRunDuringGeocode ==
    \A r, q \in Req :
        (pc[r] = "geocoding" /\ q # r)
            => /\ HasOpenLog(q) => ENABLED LogStep(q)
               /\ pc[q] = "returned" => ENABLED Respond(q)

\* C10 as claimed: every /time/convert request whose handler ended has exactly
\* one log record, launched before it ended: level "info" with the city and
\* timezone labels on success, level "error" with the status_code label on
\* failure.
C10_ExactlyOneLogRecord ==
    \A r \in Req :
        (Ended(r) /\ IsConvert(r))
            => /\ Len(logs[r]) = 1
               /\ resp[r].status = 200
                    => /\ logs[r][1].level = "info"
                       /\ {"city", "timezone"} \subseteq logs[r][1].extra
               /\ resp[r].status # 200
                    => /\ logs[r][1].level = "error"
                       /\ "status_code" \in logs[r][1].extra
                       /\ logs[r][1].status_code = resp[r].status

=============================================================================
